---- MODULE Spec2Model ----
(***************************************************************************)
(* colate: one named sheet is read from every *.xlsx file of a directory,  *)
(* blank cells are filled from the row above, template-generated columns   *)
(* are prepended to every row, and the rows of all files are written, in   *)
(* file order, to one output workbook.                                     *)
(*                                                                         *)
(* The model follows the most recent variant of the program                *)
(* (src/unnamed/part_000).  A run of main is cut at its loop: Start is     *)
(* everything before the loop, ProcessFile one iteration of the loop,      *)
(* WriteOutput everything after it.  The directory and the workbooks in    *)
(* it are the environment; they are fixed when the run starts (disk).      *)
(* A Go runtime panic and l.Fatalw (os.Exit) both end the run; they are    *)
(* the positions "panic" and "fatal" of pc.                                *)
(***************************************************************************)
EXTENDS Integers, Sequences, FiniteSets, TLC

VARIABLES
  pc,       \* position of main: "start", "loop", "done", "fatal", "panic"
  flags,    \* the command line: rowStart, rowCount, newColumns
  disk,     \* the directory as ioutil.ReadDir returns it, and its workbooks
  columns,  \* main's columns: the compiled templates
  files,    \* main's files: the paths listFiles returned
  fi,       \* number of files the loop of main has completed
  data,     \* main's data: the output matrix
  log,      \* history: one record per call of getRows (path, outcome, rows, contexts)
  saved     \* history: the workbooks SaveAs has written

vars == <<pc, flags, disk, columns, files, fi, data, log, saved>>

(***************************************************************************)
(* Bounds of the explored inputs.                                          *)
(***************************************************************************)
MaxEntries == 3    \* directory entries of a run (Spec)
MaxRunRows == 2    \* rows of a sheet in a run of several files (Spec)
MaxRows == 3       \* rows of a sheet read alone (SpecReader)
MaxStart == 2      \* -rowStart (SpecReader, SpecCap)
MaxCapRows == 5    \* rows of a sheet read under a cap (SpecCap)
MaxCount == 2      \* -rowCount (SpecCap)
MaxTmplRows == 2   \* rows of a ragged sheet (SpecTemplater)

Cell == {"", "a", "b"}
Widths == {0, 1, 2}

Min(a, b) == IF a < b THEN a ELSE b

\* All sequences over S of a length in lens.
SeqsOf(S, lens) == UNION {[1..n -> S] : n \in lens}

(***************************************************************************)
(* The directory.  ioutil.ReadDir returns the entries sorted by name;      *)
(* Names lists names in that (bytewise) order: A.XLSX < b.txt < c.xlsx ... *)
(* A name is kept as stem and extension.                                   *)
(***************************************************************************)
Names == << [stem |-> "A", ext |-> "XLSX"], [stem |-> "b", ext |-> "txt"],
            [stem |-> "c", ext |-> "xlsx"], [stem |-> "d", ext |-> "Xlsx"],
            [stem |-> "e", ext |-> "xlsx"], [stem |-> "f", ext |-> "xlsx"] >>

\* file.Name()
NameStr(n) == n.stem \o "." \o n.ext

\* strings.ToLower on the extensions that occur
ToLower(s) == CASE s = "XLSX" -> "xlsx" [] s = "Xlsx" -> "xlsx" [] OTHER -> s

\* filepath.Match("*.xlsx", strings.ToLower(file.Name()))
MatchXlsx(n) == ToLower(n.ext) = "xlsx"

FileDir == "in"

\* filepath.Join(dir, file.Name()) and filepath.Base(file)
Join(dir, n) == [dir |-> dir, name |-> n]
Base(path) == NameStr(path.name)

\* A workbook: whether excelize.OpenFile fails on it, whether it holds the
\* sheet named by -sheet, and that sheet's rows.
Workbook(openErr, hasSheet, rows) ==
  [openErr |-> openErr, hasSheet |-> hasSheet, rows |-> rows]
Unreadable == Workbook(TRUE, FALSE, <<>>)
NoSheet == Workbook(FALSE, FALSE, <<>>)
NotAWorkbook == Workbook(TRUE, FALSE, <<>>)

Contents(sheets) == {Unreadable, NoSheet} \cup {Workbook(FALSE, TRUE, s) : s \in sheets}

\* The directories of exactly n entries whose workbooks are drawn from contents.
RECURSIVE DirsOf(_, _)
DirsOf(n, contents) ==
  IF n = 0 THEN {<<>>}
  ELSE LET books == IF MatchXlsx(Names[n]) THEN contents ELSE {NotAWorkbook}
       IN {Append(d, [name |-> Names[n], book |-> b]) : d \in DirsOf(n - 1, contents), b \in books}

Disks(lens, contents) ==
  {[err |-> TRUE, entries |-> <<>>]}
    \cup {[err |-> FALSE, entries |-> e] : e \in UNION {DirsOf(n, contents) : n \in lens}}

(***************************************************************************)
(* Templates.  A compiled template is its list of nodes: literal text, a   *)
(* field of ColumnData, or index .Cells i.  Execution writes each node's   *)
(* output to the buffer as it goes and stops at the first node that fails. *)
(***************************************************************************)
Text(s) == [kind |-> "text", text |-> s, idx |-> 0]
Field(f) == [kind |-> "field", text |-> f, idx |-> 0]
Index(i) == [kind |-> "index", text |-> "", idx |-> i]
Malformed == [kind |-> "malformed", text |-> "", idx |-> 0]

\* template.New(..).Parse(columns[i])
ParseErr(src) == \E i \in 1..Len(src) : src[i].kind = "malformed"

\* getColumns: csv.Reader.Read fails on the empty flag (io.EOF); every
\* column must parse.
getColumns(columnString) ==
  IF columnString = <<>> \/ \E i \in 1..Len(columnString) : ParseErr(columnString[i])
  THEN [err |-> TRUE, templates |-> <<>>]
  ELSE [err |-> FALSE, templates |-> columnString]

\* type ColumnData
ColumnData(cells, fileName, rowNum) ==
  [Cells |-> cells, FileName |-> fileName, RowNum |-> rowNum]

\* One node against the context: its text, or a failure.
EvalNode(node, cd) ==
  CASE node.kind = "text" -> [err |-> FALSE, out |-> node.text]
    [] node.kind = "field" /\ node.text = "FileName" -> [err |-> FALSE, out |-> cd.FileName]
    [] node.kind = "field" /\ node.text = "RowNum" -> [err |-> FALSE, out |-> ToString(cd.RowNum)]
    [] node.kind = "index" /\ node.idx < Len(cd.Cells) -> [err |-> FALSE, out |-> cd.Cells[node.idx + 1]]
    [] OTHER -> [err |-> TRUE, out |-> ""]

RECURSIVE ExecFrom(_, _, _, _)
ExecFrom(nodes, i, cd, buf) ==
  IF i > Len(nodes) THEN [err |-> FALSE, out |-> buf]
  ELSE LET r == EvalNode(nodes[i], cd) IN
       IF r.err THEN [err |-> TRUE, out |-> buf]
       ELSE ExecFrom(nodes, i + 1, cd, buf \o r.out)

\* source.Execute(toPut, columnData): the error and what the buffer holds
Execute(source, cd) == ExecFrom(source, 1, cd, "")

(***************************************************************************)
(* prependColumns.                                                         *)
(***************************************************************************)
\* ColumnDataAt numbering the rows from 1.  C10 tells it from ColumnDataAt.
ColumnDataFromOne(rows, fileBase, ri) == ColumnData(rows[ri], fileBase, ri)

\* The context of the row at position ri (1-based) of rows: columnData.Cells
\* = row, columnData.RowNum = ri (the 0-based range index), FileName as set
\* by main.
ColumnDataAt(rows, fileBase, ri) == ColumnData(rows[ri], fileBase, ri - 1)

\* newData: one value per template, in template order; a failed execution
\* leaves what the buffer already holds.
NewData(sources, cd) == [si \in 1..Len(sources) |-> Execute(sources[si], cd).out]

\* PrependRow with the operands of append exchanged: the new values follow
\* the cells.  C5 tells it from PrependRow.
AppendRow(newData, row) == row \o newData

\* append(newData, row...)
PrependRow(newData, row) == newData \o row

prependColumns(rows, fileBase, sources) ==
  [ri \in 1..Len(rows) |->
     PrependRow(NewData(sources, ColumnDataAt(rows, fileBase, ri)), rows[ri])]

(***************************************************************************)
(* getRows.  The outcome is "ok" (rows, nil), "err" (the error of          *)
(* excelize.OpenFile) or "panic" (a slice or index out of range).          *)
(***************************************************************************)
Outcome(kind, rows) == [kind |-> kind, rows |-> rows]

\* excelize.OpenFile(file): the workbook at that path
OpenFile(file) ==
  disk.entries[CHOOSE i \in 1..Len(disk.entries) :
                 Join(FileDir, disk.entries[i].name) = file].book

\* f.GetRows(sheet) has no error result: a workbook without the sheet
\* gives no rows.
GetRows(book) == IF book.hasSheet THEN book.rows ELSE <<>>

\* rows[start:]
SliceFrom(rows, start) == SubSeq(rows, start + 1, Len(rows))
SliceFromPanics(rows, start) == start < 0 \/ start > Len(rows)

\* FillRow with the first-row test off by one (ri > 1 for ri != 0): the
\* second row is not filled.  C1 tells it from FillRow.
FillRowSkipsSecond(row, prev, ri) ==
  [ci \in 1..Len(row) |-> IF row[ci] = "" /\ ri > 1 THEN prev[ci] ELSE row[ci]]

\* The inner loop over the cells of the row at 0-based index ri, prev being
\* rows[ri-1]: an empty cell takes prev's cell of the same column.
FillRow(row, prev, ri) ==
  [ci \in 1..Len(row) |-> IF row[ci] = "" /\ ri # 0 THEN prev[ci] ELSE row[ci]]

\* rows[ri-1][ci] with ci outside rows[ri-1]
FillRowPanics(row, prev, ri) ==
  ri # 0 /\ \E ci \in 1..Len(row) : row[ci] = "" /\ ci > Len(prev)

\* count = count - 1; if count == 0 { break }
CapReached(count) == count - 1 = 0

\* The outer loop from the row at position p (1-based) on.
RECURSIVE FillLoop(_, _, _)
FillLoop(rows, p, count) ==
  IF p > Len(rows) THEN Outcome("ok", rows)
  ELSE LET prev == IF p = 1 THEN <<>> ELSE rows[p - 1] IN
       IF FillRowPanics(rows[p], prev, p - 1) THEN Outcome("panic", <<>>)
       ELSE LET filled == [rows EXCEPT ![p] = FillRow(rows[p], prev, p - 1)] IN
            IF CapReached(count) THEN Outcome("ok", filled)
            ELSE FillLoop(filled, p + 1, count - 1)

getRows(file, start, count) ==
  LET f == OpenFile(file) IN
  IF f.openErr THEN Outcome("err", <<>>)
  ELSE IF SliceFromPanics(GetRows(f), start) THEN Outcome("panic", <<>>)
  ELSE FillLoop(SliceFrom(GetRows(f), start), 1, count)

(***************************************************************************)
(* listFiles, createFile, writeData.                                       *)
(***************************************************************************)
RECURSIVE MatchingFrom(_, _)
MatchingFrom(entries, i) ==
  IF i > Len(entries) THEN <<>>
  ELSE (IF MatchXlsx(entries[i].name) THEN <<Join(FileDir, entries[i].name)>> ELSE <<>>)
         \o MatchingFrom(entries, i + 1)

listFiles(dir) ==
  IF dir.err THEN [err |-> TRUE, files |-> <<>>]
  ELSE [err |-> FALSE, files |-> MatchingFrom(dir.entries, 1)]

\* excelize.ToAlphaString for the first 26 columns
ToAlphaString(ci) ==
  <<"A", "B", "C", "D", "E", "F", "G", "H", "I", "J", "K", "L", "M",
    "N", "O", "P", "Q", "R", "S", "T", "U", "V", "W", "X", "Y", "Z">>[ci + 1]

\* The cells writeData sets: loc -> value, loc the column letter and the
\* 1-based row number.
writeData(startRow, rows) ==
  LET at == {<<ri, ci>> \in (1..Len(rows)) \X (1..26) : ci <= Len(rows[ri])}
      Loc(c) == ToAlphaString(c[2] - 1) \o ToString(startRow + (c[1] - 1) + 1)
  IN [loc \in {Loc(c) : c \in at} |->
        LET c == CHOOSE c \in at : Loc(c) = loc IN rows[c[1]][c[2]]]

createFile(rows) == writeData(0, rows)

(***************************************************************************)
(* main.                                                                   *)
(***************************************************************************)
\* ReadOutcome logging the error and going on to the next file.  C8 tells
\* it from ReadOutcome.
ReadOutcomeSkips(kind) ==
  CASE kind = "panic" -> "panic"
    [] OTHER -> "loop"

\* Where main stands after getRows returned: l.Fatalw on an error, the
\* crash on a panic, the rest of the loop body otherwise.
ReadOutcome(kind) ==
  CASE kind = "err" -> "fatal"
    [] kind = "panic" -> "panic"
    [] OTHER -> "loop"

\* AppendData putting the new rows first.  C7 tells it from AppendData.
PrependData(d, thisData) == thisData \o d

\* data = append(data, thisData...)
AppendData(d, thisData) == d \o thisData

\* flag.Parse, getColumns, listFiles
Start ==
  /\ pc = "start"
  /\ LET cols == getColumns(flags.newColumns)
         ls == listFiles(disk)
     IN IF cols.err THEN pc' = "fatal" /\ UNCHANGED <<columns, files>>
        ELSE IF ls.err THEN pc' = "fatal" /\ columns' = cols.templates /\ UNCHANGED files
        ELSE pc' = "loop" /\ columns' = cols.templates /\ files' = ls.files
  /\ UNCHANGED <<flags, disk, fi, data, log, saved>>

\* One iteration of for _, file := range files
ProcessFile ==
  /\ pc = "loop"
  /\ fi < Len(files)
  /\ LET file == files[fi + 1]
         fileBase == Base(file)
         got == getRows(file, flags.rowStart, flags.rowCount)
         ctx == [ri \in 1..Len(got.rows) |-> ColumnDataAt(got.rows, fileBase, ri)]
         thisData == prependColumns(got.rows, fileBase, columns)
     IN /\ pc' = ReadOutcome(got.kind)
        /\ log' = Append(log, [file |-> file, kind |-> got.kind,
                               rows |-> got.rows, ctx |-> ctx])
        /\ IF ReadOutcome(got.kind) = "loop"
           THEN data' = AppendData(data, thisData) /\ fi' = fi + 1
           ELSE UNCHANGED <<data, fi>>
  /\ UNCHANGED <<flags, disk, columns, files, saved>>

\* createFile and output.SaveAs, which may fail
WriteOutput ==
  /\ pc = "loop"
  /\ fi = Len(files)
  /\ \E saveErr \in BOOLEAN :
       IF saveErr THEN pc' = "fatal" /\ UNCHANGED saved
       ELSE pc' = "done" /\ saved' = Append(saved, createFile(data))
  /\ UNCHANGED <<flags, disk, columns, files, fi, data, log>>

Next == Start \/ ProcessFile \/ WriteOutput

(***************************************************************************)
(* The explored inputs.                                                    *)
(***************************************************************************)
ColDefault == << <<Field("FileName")>> >>
ColPair == << <<Field("FileName")>>, <<Field("RowNum")>> >>
ColIndex == << <<Index(0)>>, <<Field("RowNum")>> >>
ColPartial == << <<Text("x"), Field("Nope"), Text("y")>>, <<Field("FileName")>> >>
ColMalformed == << <<Field("FileName")>>, <<Malformed>> >>
ColEmpty == <<>>

Flags(starts, counts, cols) ==
  [rowStart : starts, rowCount : counts, newColumns : cols]

\* Sheets of at most maxRows rows, every row of a width in widths.
RaggedSheets(maxRows, widths, cells) == SeqsOf(SeqsOf(cells, widths), 0..maxRows)
\* Sheets whose rows all have the same width.
UniformSheets(maxRows, widths, cells) ==
  UNION {SeqsOf([1..w -> cells], 0..maxRows) : w \in widths}

InitRun ==
  /\ pc = "start" /\ columns = <<>> /\ files = <<>> /\ fi = 0
  /\ data = <<>> /\ log = <<>> /\ saved = <<>>

\* A run over a directory of several files with narrow sheets.
Init ==
  /\ flags \in Flags({0, 1}, {0, 1}, {ColPair, ColMalformed, ColEmpty})
  /\ disk \in Disks(0..MaxEntries, Contents(UniformSheets(MaxRunRows, {1}, {"", "a"})))
  /\ InitRun

Spec == Init /\ [][Next]_vars

\* One file with a sheet of rows of equal width, every offset, no cap.
InitReader ==
  /\ flags \in Flags(0..MaxStart, {0}, {ColDefault})
  /\ disk \in Disks({1}, Contents(UniformSheets(MaxRows, Widths, Cell)))
  /\ InitRun

SpecReader == InitReader /\ [][Next]_vars

\* One file with a sheet of one column, every offset and cap.
InitCap ==
  /\ flags \in Flags(0..MaxStart, 0..MaxCount, {ColDefault})
  /\ disk \in Disks({1}, Contents(UniformSheets(MaxCapRows, {1}, {"", "a"})))
  /\ InitRun

SpecCap == InitCap /\ [][Next]_vars

\* One file with a ragged sheet, every list of templates.
InitTemplater ==
  /\ flags \in Flags({0, 1}, {0},
                     {ColDefault, ColPair, ColIndex, ColPartial})
  /\ disk \in Disks({1}, Contents(RaggedSheets(MaxTmplRows, Widths, Cell)))
  /\ InitRun

SpecTemplater == InitTemplater /\ [][Next]_vars

(***************************************************************************)
(* What the properties below speak of.                                     *)
(***************************************************************************)
\* The sheet of the k-th file handed to getRows, as stored in the workbook,
\* and that sheet from the start offset on.
BookOf(k) == OpenFile(log[k].file)
StoredRows(k) == GetRows(BookOf(k))
OffsetRows(k) == SubSeq(StoredRows(k), flags.rowStart + 1, Len(StoredRows(k)))

\* Number of rows the files before the k-th contributed to data.
RECURSIVE RowsBefore(_)
RowsBefore(k) == IF k <= 1 THEN 0 ELSE RowsBefore(k - 1) + Len(log[k - 1].rows)

\* The row of data that comes from row ri of the k-th file.
DataRow(k, ri) == data[RowsBefore(k) + ri]

\* The files whose rows have been appended to data.
Appended == {k \in 1..Len(log) : log[k].kind = "ok"}

\* The nearest non-empty cell of column c at or above row r of rows, or "".
NearestAbove(rows, r, c) ==
  LET S == {q \in 1..r : rows[q][c] # ""}
  IN IF S = {} THEN "" ELSE rows[CHOOSE q \in S : \A p \in S : p <= q][c]

(***************************************************************************)
(* Reader: fill-down (SpecReader), cap and offset (SpecCap).                *)
(***************************************************************************)
\* C1: with no row cap and rows of equal width, getRows returns as many rows
\* of the same widths as the sheet has from the offset on; row 0 is as
\* stored; every later cell is the stored cell when that is non-empty and
\* otherwise the returned cell above it, which is the nearest non-empty
\* stored cell above it in its column, or empty when there is none.
C1_FillDown ==
  \A k \in 1..Len(log) :
    (~BookOf(k).openErr /\ flags.rowCount = 0 /\ flags.rowStart <= Len(StoredRows(k))) =>
      LET in == OffsetRows(k)
          out == log[k].rows
      IN /\ log[k].kind = "ok"
         /\ Len(out) = Len(in)
         /\ \A r \in 1..Len(in) : Len(out[r]) = Len(in[r])
         /\ Len(in) > 0 => out[1] = in[1]
         /\ \A r \in 2..Len(in) : \A c \in 1..Len(in[r]) :
              out[r][c] = IF in[r][c] # "" THEN in[r][c] ELSE out[r - 1][c]
         /\ \A r \in 1..Len(in) : \A c \in 1..Len(in[r]) :
              out[r][c] = NearestAbove(in, r, c)

\* A value has travelled down two rows: rows 1 and 2 (0-based) of a column
\* are stored empty under a non-empty row 0 and are returned filled.
C1_Witness ==
  /\ Len(log) = 1 /\ log[1].kind = "ok" /\ flags.rowCount = 0 /\ flags.rowStart = 0
  /\ Len(StoredRows(1)) = 3
  /\ \E c \in 1..Len(StoredRows(1)[1]) :
       /\ StoredRows(1)[1][c] = "b" /\ StoredRows(1)[2][c] = "" /\ StoredRows(1)[3][c] = ""
       /\ log[1].rows[2][c] = "b" /\ log[1].rows[3][c] = "b"

\* C2: getRows returns exactly the first min(n, k) of the n rows after the
\* offset when the cap k is positive, and all n rows when k = 0; a file adds
\* no more than k rows to data when k > 0.
C2_RowCap ==
  \A k \in Appended :
    LET n == Len(OffsetRows(k))
        want == IF flags.rowCount > 0 THEN Min(n, flags.rowCount) ELSE n
    IN /\ Len(log[k].rows) = want
       /\ (flags.rowCount > 0 /\ k = Len(log)) =>
            Len(data) - RowsBefore(k) <= flags.rowCount

\* C3: a start offset beyond the n rows of the sheet gives an empty row
\* sequence and no error, and the run goes on; an offset within the sheet
\* gives the rows from the offset on.
C3_OffsetBeyond ==
  \A k \in 1..Len(log) :
    (~BookOf(k).openErr /\ BookOf(k).hasSheet) =>
      /\ log[k].kind = "ok"
      /\ pc # "panic"
      /\ Len(log[k].rows) =
           IF flags.rowStart > Len(StoredRows(k)) THEN 0
           ELSE Len(StoredRows(k)) - flags.rowStart

(***************************************************************************)
(* Ragged rows and the templater (SpecTemplater: one file, ragged sheet,   *)
(* no cap).                                                                *)
(***************************************************************************)
\* Row r (r >= 2) of rows has an empty cell in a column its preceding row
\* does not have.
WiderEmpty(rows, r) == \E c \in 1..Len(rows[r]) : rows[r][c] = "" /\ c > Len(rows[r - 1])

\* C4: when a row after the first has an empty cell in a column that the
\* preceding row does not have, getRows completes normally, leaves that cell
\* empty and fills every other cell as usual.
C4_RaggedFill ==
  \A k \in 1..Len(log) :
    LET in == OffsetRows(k)
        out == log[k].rows
    IN (/\ ~BookOf(k).openErr /\ flags.rowStart <= Len(StoredRows(k))
        /\ \E r \in 2..Len(in) : WiderEmpty(in, r)) =>
         /\ log[k].kind = "ok"
         /\ pc # "panic"
         /\ Len(out) = Len(in)
         /\ \A r \in 1..Len(out) :
              /\ Len(out[r]) = Len(in[r])
              /\ \A c \in 1..Len(out[r]) :
                   out[r][c] = IF in[r][c] # "" THEN in[r][c]
                               ELSE IF r = 1 \/ c > Len(out[r - 1]) THEN ""
                               ELSE out[r - 1][c]

\* The values the templates give for row ri of the k-th file.
Values(k, ri) == [j \in 1..Len(columns) |-> Execute(columns[j], log[k].ctx[ri]).out]

\* C5: prependColumns turns every row [c1..cm] into [v1..vn, c1..cm], vi the
\* value of the i-th template for that row: the values at the head in
\* template order, the cells after them unchanged and in order; rows are
\* neither added, dropped nor reordered.
C5_PrependOrder ==
  \A k \in Appended :
    /\ Len(data) >= RowsBefore(k) + Len(log[k].rows)
    /\ k = Len(log) => Len(data) = RowsBefore(k) + Len(log[k].rows)
    /\ \A ri \in 1..Len(log[k].rows) :
         LET row == log[k].rows[ri]
             n == Len(columns)
         IN /\ Len(DataRow(k, ri)) = n + Len(row)
            /\ \A j \in 1..n : DataRow(k, ri)[j] = Values(k, ri)[j]
            /\ \A c \in 1..Len(row) : DataRow(k, ri)[n + c] = row[c]

\* Two templates giving the file name and the row number are prepended, in
\* that order, to the second row ["a","b"] of a sheet.
C5_Witness ==
  /\ columns = ColPair /\ Len(log) = 1 /\ log[1].kind = "ok" /\ Len(data) = 2
  /\ log[1].rows[2] = <<"a", "b">>
  /\ data[2] = <<"A.XLSX", "1", "a", "b">>

\* C6: whenever a template fails on a row, the value prepended for it is the
\* empty string, the remaining templates of the row and the later rows are
\* still evaluated, and the run is not aborted.
C6_FailureGivesEmpty ==
  \A k \in Appended :
    \A ri \in 1..Len(log[k].rows) :
      \A j \in 1..Len(columns) :
        Execute(columns[j], log[k].ctx[ri]).err =>
          /\ DataRow(k, ri)[j] = ""
          /\ Len(DataRow(k, ri)) = Len(columns) + Len(log[k].rows[ri])
          /\ pc \in {"loop", "done", "fatal"}

(***************************************************************************)
(* The run over several files (Spec).                                      *)
(***************************************************************************)
\* Position of a listed file among the directory entries.
EntryIndex(file) ==
  CHOOSE i \in 1..Len(disk.entries) : Join(FileDir, disk.entries[i].name) = file

\* The transformed sheets of the first k files, one after the other.
RECURSIVE Collated(_)
Collated(k) ==
  IF k = 0 THEN <<>>
  ELSE Collated(k - 1) \o prependColumns(log[k].rows, Base(files[k]), columns)

\* C7: the listed files are in directory (lexical) order and are read in
\* that order; whenever the first fi files have been processed, data is the
\* concatenation, in file order, of the transformed sheets of exactly those
\* files, each in its own row order, and the number of rows of data is the
\* sum of the per-file row counts.
C7_FileOrder ==
  /\ fi <= Len(files)
  /\ fi <= Len(log)
  /\ \A i \in 1..Len(files) : \A j \in 1..Len(files) :
       i < j => EntryIndex(files[i]) < EntryIndex(files[j])
  /\ \A k \in 1..Len(log) : log[k].file = files[k]
  /\ \A k \in 1..fi : log[k].kind = "ok"
  /\ data = Collated(fi)
  /\ Len(data) = RowsBefore(fi + 1)

\* A.XLSX gave two rows and c.xlsx one: the first two rows of data come from
\* A.XLSX and the third from c.xlsx, and the run has ended.
C7_Witness ==
  /\ pc = "done" /\ fi = 2 /\ columns = ColPair
  /\ Len(log[1].rows) = 2 /\ Len(log[2].rows) = 1
  /\ data[1][1] = "A.XLSX" /\ data[2][1] = "A.XLSX" /\ data[3][1] = "c.xlsx"

\* C8: a file on which getRows returns an error is the last one read: the
\* run has ended there, takes no further step and writes no output, whatever
\* was appended before; the output is written at most once, and only by a
\* run that has processed every listed file without a reader error.
C8_FailFast ==
  /\ \A k \in 1..Len(log) :
       log[k].kind = "err" =>
         /\ k = Len(log) /\ fi = k - 1
         /\ pc = "fatal"
         /\ saved = <<>>
  /\ pc \in {"fatal", "panic"} => (saved = <<>> /\ ~ENABLED Next)
  /\ Len(saved) <= 1
  /\ saved # <<>> =>
       /\ pc = "done"
       /\ fi = Len(files) /\ Len(log) = Len(files)
       /\ \A k \in 1..Len(log) : log[k].kind = "ok"
       /\ saved[1] = createFile(data)
  /\ pc = "done" => Len(saved) = 1

\* The second of two files cannot be opened after the first has given rows:
\* the run is over with rows in data and nothing written.
C8_Witness ==
  /\ Len(files) = 2 /\ Len(log) = 2
  /\ log[1].kind = "ok" /\ log[2].kind = "err"
  /\ data # <<>> /\ pc = "fatal" /\ saved = <<>>

\* C9: getRows returns an error when the file cannot be opened and when the
\* file does not hold the named sheet; a file without the sheet never gives
\* a successful row sequence that lets the run go on.
C9_ReaderErrors ==
  \A k \in 1..Len(log) :
    /\ BookOf(k).openErr => log[k].kind = "err"
    /\ (~BookOf(k).openErr /\ ~BookOf(k).hasSheet) => (log[k].kind = "err" /\ fi < k)

\* C10: the context of the row at 0-based position i of the sheet getRows
\* returned for a file has the file's base name as FileName, i as RowNum
\* (counted per file, from the row at the offset) and that row's cells, as
\* filled and before anything is prepended, as Cells; the templates see
\* these values.
C10_RowContext ==
  \A k \in 1..Len(log) :
    /\ Len(log[k].ctx) = Len(log[k].rows)
    /\ \A ri \in 1..Len(log[k].rows) :
         /\ log[k].ctx[ri].FileName = NameStr(disk.entries[EntryIndex(files[k])].name)
         /\ log[k].ctx[ri].RowNum = ri - 1
         /\ log[k].ctx[ri].Cells = log[k].rows[ri]
         /\ (k \in Appended /\ columns = ColPair) =>
              DataRow(k, ri) = <<NameStr(log[k].file.name), ToString(ri - 1)>>
                                 \o log[k].rows[ri]

\* The second row of the second file, stored empty under "a", after a first
\* file of two rows: RowNum is 1, FileName c.xlsx, Cells the filled row.
C10_Witness ==
  /\ Len(log) = 2 /\ log[2].kind = "ok" /\ columns = ColPair
  /\ Len(log[1].rows) = 2
  /\ StoredRows(2) = << <<"a">>, <<"">> >> /\ flags.rowStart = 0
  /\ log[2].ctx[2] = ColumnData(<<"a">>, "c.xlsx", 1)
  /\ data[4] = <<"c.xlsx", "1", "a">>

====
